---------------------------- MODULE Spec2Model ----------------------------
(***************************************************************************)
(* Model of the Learning Production Engine pipeline orchestration:         *)
(*   - PipelineOrchestrator.processSourceToLesson  (services/orchestrator) *)
(*   - POST /api/sources/from-notebook                                     *)
(*   - CollectionOrchestrator.addSourceToCollection,                       *)
(*     processCollectionToLesson, ensureCollectionAnalysis, saveLesson     *)
(*   - CollectionAnalyzer.analyzeCollection                                *)
(*                                                                         *)
(* The store is the set of tables the code reads and writes. A row's id is *)
(* its position in its table. One action is one awaited operation (a store *)
(* round-trip or an adapter call) together with the synchronous code that  *)
(* leads to it and follows it.                                             *)
(*                                                                         *)
(* Store outcomes. An insert can be rejected by the store; the code tests  *)
(* the returned error for most inserts, and where it does not the          *)
(* rejection passes silently. A status update of an existing row writes a  *)
(* constant, legal value and is applied; the code never inspects its       *)
(* result.                                                                 *)
(***************************************************************************)
EXTENDS Integers, Sequences, FiniteSets, TLC

\* ------------------------------------------------------------------ bounds
MaxProcs == 2
MaxSources == 3
MaxCourses == 1
MaxCollectionAnalyses == 1
MaxNodes == 4
MaxModuleNumber == 2
MaxAnalysisRows == 3

Procs == 1..MaxProcs
SourceTypes == {"youtube", "pdf"}
ObjectiveTypes == {"terminal", "enabling"}
ModuleNumbers == 1..MaxModuleNumber

\* The single Collection the collection pipeline works on.
CollectionId == "collection"
\* collection_id of a Course that was not generated from a Collection.
NoCollection == "null"

\* --------------------------------------------------------- lesson trees
\* GeneratedLesson as the adapters return it (JSON.parse of the model's
\* answer, not validated): modules, each with a moduleNumber and a list of
\* objectives, each with a type and a list of activities (its length here).
RECURSIVE ObjectivesSize(_)
ObjectivesSize(os) ==
    IF os = << >> THEN 0
    ELSE 1 + Head(os).activities + ObjectivesSize(Tail(os))

RECURSIVE ObjectiveSeqs(_)
ObjectiveSeqs(n) ==
    {<< >>} \cup
    UNION { { <<[type |-> t, activities |-> a]>> \o s : s \in ObjectiveSeqs(n - 1 - a) }
            : t \in ObjectiveTypes, a \in 0..(n - 1) }

RECURSIVE ModuleSeqs(_)
ModuleSeqs(n) ==
    {<< >>} \cup
    UNION { { <<[moduleNumber |-> k, objectives |-> os]>> \o ms
                : ms \in ModuleSeqs(n - 1 - ObjectivesSize(os)) }
            : k \in ModuleNumbers, os \in (IF n >= 1 THEN ObjectiveSeqs(n - 1) ELSE {}) }

LessonTrees == { [modules |-> ms] : ms \in ModuleSeqs(MaxNodes) }
NoLesson == [modules |-> << >>]

\* ----------------------------------------------------------------- state
VARIABLES
    sources,                \* table sources: status, error_message
    source_analyses,        \* table source_analyses: source_id (in insertion order)
    collection,             \* the source_collections row: status, analysis_completed_at
    collection_sources,     \* table collection_sources: source_id, order_index, added_at
    collection_analyses,    \* table collection_analyses
    courses,                \* table courses: collection_id, notebook_id
    modules,                \* table modules: course_id, module_number
    lesson_source_mappings, \* table lesson_source_mappings: source_id, module_id
    learning_objectives,    \* table learning_objectives: module_id, objective_type, order_index
    learning_activities,    \* table learning_activities: learning_objective_id, order_index
    clock,                  \* the store's time (added_at, created_at of the collection tables)
    inv                     \* the invocations in flight: position and locals

store == <<sources, source_analyses, collection, collection_sources,
           collection_analyses, courses, modules, lesson_source_mappings,
           learning_objectives, learning_activities, clock>>
lessonTables == <<courses, modules, lesson_source_mappings,
                  learning_objectives, learning_activities>>
collectionTables == <<collection, collection_sources, collection_analyses>>
vars == <<sources, source_analyses, collection, collection_sources,
          collection_analyses, courses, modules, lesson_source_mappings,
          learning_objectives, learning_activities, clock, inv>>

IdleInv ==
    [op |-> "none", pc |-> "idle", sourceType |-> "youtube", hasFile |-> FALSE,
     onStatus |-> FALSE, source |-> 0, lesson |-> NoLesson,
     courseId |-> 0, moduleId |-> 0, objectiveId |-> 0, mi |-> 0, i |-> 0, j |-> 0,
     members |-> << >>, analyses |-> << >>, analysis |-> 0, maxOrder |-> -1,
     error |-> ""]

Init ==
    /\ sources = << >>
    /\ source_analyses = << >>
    /\ collection = [status |-> "building", analysis_completed_at |-> 0]
    /\ collection_sources = << >>
    /\ collection_analyses = << >>
    /\ courses = << >>
    /\ modules = << >>
    /\ lesson_source_mappings = << >>
    /\ learning_objectives = << >>
    /\ learning_activities = << >>
    /\ clock = 0
    /\ inv = [p \in Procs |-> IdleInv]

Finished(p) == inv[p].pc \in {"idle", "returned", "thrown"}
NoneRunning == \A q \in Procs : Finished(q)
NeverInvoked == \A q \in Procs : inv[q].pc = "idle"

\* ------------------------------------------------------ shared helpers
Set(p, r) == [inv EXCEPT ![p] = r]

\* The invocation has ended with pc "returned" or "thrown": what its caller
\* holds (the ids and the lesson); the other locals are gone.
End(r, pc) ==
    [IdleInv EXCEPT !.op = r.op, !.pc = pc, !.onStatus = r.onStatus, !.source = r.source,
                    !.lesson = r.lesson, !.courseId = r.courseId, !.analysis = r.analysis,
                    !.error = r.error]

updateSourceStatus(srcs, sourceId, status) ==
    [srcs EXCEPT ![sourceId].status = status]

\* from('source_analyses').insert({ source_id, ... }): one new row.
InsertAnalysisUpsert(rows, sourceId) ==
    IF rows = << >> THEN <<[source_id |-> sourceId]>>
    ELSE [rows EXCEPT ![Len(rows)] = [source_id |-> sourceId]]
InsertAnalysis(rows, sourceId) == Append(rows, [source_id |-> sourceId])

\* Where saveLesson's caller continues when saveLesson returns course.id.
SaveLessonReturns(r) ==
    CASE r.op = "single"   -> [r EXCEPT !.pc = "ps_notebook"]
      [] r.op = "notebook" -> [r EXCEPT !.pc = "nb_completed"]
      [] OTHER             -> End(r, "returned")

\* Where an error raised inside the invocation's try block lands.
Raise(r) ==
    CASE r.op = "single"   -> [r EXCEPT !.pc = "ps_catch"]
      [] r.op = "notebook" -> [r EXCEPT !.pc = "nb_catch"]
      [] OTHER             -> End(r, "thrown")

\* throw: the error names the step that raised it; a status callback that
\* raises before the step ("callback") takes the same path.
Throw(r, outcome, step) ==
    Raise([r EXCEPT !.error = IF outcome = "callback" THEN "callback" ELSE step])

\* The loops of saveLesson: for (const mod of lesson.modules),
\* for (i < mod.objectives.length), for (j < obj.activities.length).
CurModule(r) == r.lesson.modules[r.mi]
CurObjective(r) == CurModule(r).objectives[r.i + 1]

NextModule(r) ==
    IF r.mi < Len(r.lesson.modules)
    THEN [r EXCEPT !.mi = r.mi + 1, !.pc = "sl_module"]
    ELSE SaveLessonReturns(r)

NextObjective(r) ==
    IF r.i < Len(CurModule(r).objectives)
    THEN [r EXCEPT !.pc = "sl_objective"]
    ELSE NextModule(r)

NextActivity(r) ==
    IF r.j < CurObjective(r).activities
    THEN [r EXCEPT !.pc = "sl_activity"]
    ELSE NextObjective([r EXCEPT !.i = r.i + 1])

\* What the store can answer to an insert; "callback" is the status
\* callback that runs before the call raising instead (single pipeline only).
Outcomes(r, cb) ==
    {"ok", "error"} \cup (IF cb /\ r.onStatus THEN {"callback"} ELSE {})

\* ------------------------------------------------ saveLesson, step by step
InsertCourse(p, op, row, cb) ==
    LET r == inv[p] IN
    /\ r.op = op /\ r.pc = "sl_course"
    /\ \E outcome \in Outcomes(r, cb) :
        IF outcome = "ok"
        THEN /\ courses' = Append(courses, row)
             /\ inv' = Set(p, IF Len(r.lesson.modules) = 0
                              THEN SaveLessonReturns([r EXCEPT !.courseId = Len(courses) + 1])
                              ELSE [r EXCEPT !.courseId = Len(courses) + 1,
                                             !.mi = 1, !.pc = "sl_module"])
        ELSE /\ courses' = courses
             /\ inv' = Set(p, Throw(r, outcome, "materialization"))
    /\ UNCHANGED <<sources, source_analyses, collectionTables, modules,
                   lesson_source_mappings, learning_objectives, learning_activities, clock>>

\* mapped: whether the module insert is followed by a lesson_source_mappings insert
InsertModule(p, op, mapped) ==
    LET r == inv[p] IN
    /\ r.op = op /\ r.pc = "sl_module"
    /\ \E outcome \in {"ok", "error"} :
        IF outcome = "ok"
        THEN /\ modules' = Append(modules, [course_id |-> r.courseId,
                                            module_number |-> CurModule(r).moduleNumber])
             /\ inv' = Set(p, LET r2 == [r EXCEPT !.moduleId = Len(modules) + 1, !.i = 0]
                              IN  IF mapped THEN [r2 EXCEPT !.pc = "sl_mapping"]
                                  ELSE NextObjective(r2))
        ELSE /\ modules' = modules
             /\ inv' = Set(p, Throw(r, outcome, "materialization"))
    /\ UNCHANGED <<sources, source_analyses, collectionTables, courses,
                   lesson_source_mappings, learning_objectives, learning_activities, clock>>

\* The mapping insert's result is not inspected: a rejected insert passes silently.
InsertMapping(p, op) ==
    LET r == inv[p] IN
    /\ r.op = op /\ r.pc = "sl_mapping"
    /\ \E outcome \in {"ok", "error"} :
        lesson_source_mappings' =
            IF outcome = "ok"
            THEN Append(lesson_source_mappings, [source_id |-> r.source, module_id |-> r.moduleId])
            ELSE lesson_source_mappings
    /\ inv' = Set(p, NextObjective(r))
    /\ UNCHANGED <<sources, source_analyses, collectionTables, courses, modules,
                   learning_objectives, learning_activities, clock>>

InsertObjective(p, op) ==
    LET r == inv[p] IN
    /\ r.op = op /\ r.pc = "sl_objective"
    /\ \E outcome \in {"ok", "error"} :
        IF outcome = "ok"
        THEN /\ learning_objectives' =
                    Append(learning_objectives,
                           [module_id |-> r.moduleId,
                            objective_type |-> CurObjective(r).type,
                            order_index |-> r.i])
             /\ inv' = Set(p, NextActivity([r EXCEPT !.objectiveId = Len(learning_objectives) + 1,
                                                     !.j = 0]))
        ELSE /\ learning_objectives' = learning_objectives
             /\ inv' = Set(p, Throw(r, outcome, "materialization"))
    /\ UNCHANGED <<sources, source_analyses, collectionTables, courses, modules,
                   lesson_source_mappings, learning_activities, clock>>

\* checked: whether the insert's error is tested (and thrown)
InsertActivity(p, op, checked) ==
    LET r == inv[p] IN
    /\ r.op = op /\ r.pc = "sl_activity"
    /\ \E outcome \in {"ok", "error"} :
        IF outcome = "ok"
        THEN /\ learning_activities' =
                    Append(learning_activities,
                           [learning_objective_id |-> r.objectiveId, order_index |-> r.j])
             /\ inv' = Set(p, NextActivity([r EXCEPT !.j = r.j + 1]))
        ELSE /\ learning_activities' = learning_activities
             /\ inv' = Set(p, IF checked THEN Throw(r, outcome, "materialization")
                              ELSE NextActivity([r EXCEPT !.j = r.j + 1]))
    /\ UNCHANGED <<sources, source_analyses, collectionTables, courses, modules,
                   lesson_source_mappings, learning_objectives, clock>>

\* ------------------------------------------- lesson generation adapters
\* ClaudeLessonService.validateLesson: at least one module, every module has
\* an objective and a terminal objective.
validateLesson(lesson) ==
    /\ Len(lesson.modules) > 0
    /\ \A m \in 1..Len(lesson.modules) :
        /\ Len(lesson.modules[m].objectives) > 0
        /\ \E o \in 1..Len(lesson.modules[m].objectives) :
            lesson.modules[m].objectives[o].type = "terminal"

\* OpenRouterService.generateLesson returns the parsed answer as it is.
OpenRouterAccepts(lesson) == TRUE

\* ClaudeLessonService.generateLesson returns the parsed answer only if
\* validateLesson passes.
ClaudeAccepts(lesson) == validateLesson(lesson)

\* --------------------------------- single-source pipeline (orchestrator.ts)
NewInv(op, pc, sourceType, hasFile, onStatus, sourceId) ==
    [IdleInv EXCEPT !.op = op, !.pc = pc, !.sourceType = sourceType,
                    !.hasFile = hasFile, !.onStatus = onStatus, !.source = sourceId]

\* Entry and step 1: onStatus('Creating source record...'), createSource.
\* Both are outside the try block: an error propagates and no Source exists.
processSourceToLesson(p) ==
    /\ Finished(p)
    /\ \E sourceType \in SourceTypes, hasFile \in BOOLEAN, onStatus \in BOOLEAN :
        /\ sourceType = "youtube" => ~hasFile
        /\ \E outcome \in {"ok", "error"} \cup (IF onStatus THEN {"callback"} ELSE {}) :
            IF outcome = "ok"
            THEN /\ sources' = Append(sources, [status |-> "pending", error_message |-> ""])
                 /\ inv' = Set(p, NewInv("single", "ps_processing", sourceType, hasFile,
                                         onStatus, Len(sources) + 1))
            ELSE /\ sources' = sources
                 /\ inv' = Set(p, End([NewInv("single", "thrown", sourceType, hasFile,
                                              onStatus, 0)
                                       EXCEPT !.error = IF outcome = "callback"
                                                        THEN "callback" ELSE "source"],
                                   "thrown"))
    /\ UNCHANGED <<source_analyses, collectionTables, lessonTables, clock>>

\* Step 2: updateSourceStatus(source.id, 'processing').
PS_MarkProcessing(p) ==
    LET r == inv[p] IN
    /\ r.op = "single" /\ r.pc = "ps_processing"
    /\ sources' = updateSourceStatus(sources, r.source, "processing")
    /\ inv' = Set(p, [r EXCEPT !.pc = "ps_analyze"])
    /\ UNCHANGED <<source_analyses, collectionTables, lessonTables, clock>>

\* analyzeSource has thrown (or the status callback before it): the error
\* leaves the try block.
AnalyzeSourceFailedIgnored(r, outcome) ==
    [r EXCEPT !.error = "analysis", !.pc = "ps_save_analysis"]
AnalyzeSourceFailed(r, outcome) == Throw(r, outcome, "analysis")

\* Step 3: onStatus, analyzeSource. A document without file bytes throws.
PS_AnalyzeSource(p) ==
    LET r == inv[p] IN
    /\ r.op = "single" /\ r.pc = "ps_analyze"
    /\ \E outcome \in Outcomes(r, TRUE) :
        inv' = Set(p, IF outcome = "ok" /\ (r.sourceType = "youtube" \/ r.hasFile)
                      THEN [r EXCEPT !.pc = "ps_save_analysis"]
                      ELSE AnalyzeSourceFailed(r, outcome))
    /\ UNCHANGED store

\* Step 4: onStatus, saveAnalysis.
PS_SaveAnalysis(p) ==
    LET r == inv[p] IN
    /\ r.op = "single" /\ r.pc = "ps_save_analysis"
    /\ \E outcome \in Outcomes(r, TRUE) :
        IF outcome = "ok"
        THEN /\ source_analyses' = InsertAnalysis(source_analyses, r.source)
             /\ inv' = Set(p, [r EXCEPT !.pc = "ps_title"])
        ELSE /\ UNCHANGED source_analyses
             /\ inv' = Set(p, Throw(r, outcome, "save_analysis"))
    /\ UNCHANGED <<sources, collectionTables, lessonTables, clock>>

\* Step 5a: onStatus, getSourceTitle (a read whose error is not inspected).
PS_GetSourceTitle(p) ==
    LET r == inv[p] IN
    /\ r.op = "single" /\ r.pc = "ps_title"
    /\ \E outcome \in Outcomes(r, TRUE) \ {"error"} :
        inv' = Set(p, IF outcome = "ok" THEN [r EXCEPT !.pc = "ps_generate"] 
                      ELSE Throw(r, outcome, "title"))
    /\ UNCHANGED store

\* Step 5: this.ai.generateLesson(analysis.analysisData, title).
PS_GenerateLesson(p) ==
    LET r == inv[p] IN
    /\ r.op = "single" /\ r.pc = "ps_generate"
    /\ \/ \E lesson \in LessonTrees :
            inv' = Set(p, IF OpenRouterAccepts(lesson)
                          THEN [r EXCEPT !.lesson = lesson, !.pc = "sl_course"]
                          ELSE Throw(r, "error", "generation"))
       \/ inv' = Set(p, Throw(r, "error", "generation"))
    /\ UNCHANGED store

\* Step 6: onStatus, saveLesson.
PS_InsertCourse(p) ==
    InsertCourse(p, "single", [collection_id |-> NoCollection, notebook_id |-> FALSE], TRUE)
PS_InsertModule(p) == InsertModule(p, "single", TRUE)
PS_InsertMapping(p) == InsertMapping(p, "single")
PS_InsertObjective(p) == InsertObjective(p, "single")
PS_InsertActivity(p) == InsertActivity(p, "single", TRUE)

\* catch (nbError): non-fatal, log and continue with step 8.
NotebookFailedFatal(r) == Throw(r, "error", "notebook")
NotebookFailed(r) == [r EXCEPT !.pc = "ps_completed"]

\* Step 7: onStatus, createNotebookForCourse inside its own try: non-fatal.
PS_CreateNotebook(p) ==
    LET r == inv[p] IN
    /\ r.op = "single" /\ r.pc = "ps_notebook"
    /\ \E outcome \in Outcomes(r, TRUE) :
        /\ courses' = IF outcome = "ok"
                      THEN [courses EXCEPT ![r.courseId].notebook_id = TRUE]
                      ELSE courses
        /\ inv' = Set(p, IF outcome = "callback" THEN Throw(r, outcome, "notebook")
                         ELSE IF outcome = "error" THEN NotebookFailed(r)
                         ELSE [r EXCEPT !.pc = "ps_completed"])
    /\ UNCHANGED <<sources, source_analyses, collectionTables, modules,
                   lesson_source_mappings, learning_objectives, learning_activities, clock>>

\* Step 8: updateSourceStatus(source.id, 'completed'); onStatus('Complete!'); return.
PS_MarkCompleted(p) ==
    LET r == inv[p] IN
    /\ r.op = "single" /\ r.pc = "ps_completed"
    /\ sources' = updateSourceStatus(sources, r.source, "completed")
    /\ \E outcome \in Outcomes(r, TRUE) \ {"error"} :
        inv' = Set(p, IF outcome = "ok" THEN End(r, "returned") 
                      ELSE Throw(r, outcome, "complete"))
    /\ UNCHANGED <<source_analyses, collectionTables, lessonTables, clock>>

\* The status write of the catch block.
PipelineFailedNoWrite(srcs, sourceId) == srcs
PipelineFailed(srcs, sourceId) == updateSourceStatus(srcs, sourceId, "failed")

\* catch (error): updateSourceStatus(source.id, 'failed'); throw error.
PS_Catch(p) ==
    LET r == inv[p] IN
    /\ r.op = "single" /\ r.pc = "ps_catch"
    /\ sources' = PipelineFailed(sources, r.source)
    /\ inv' = Set(p, End(r, "thrown"))
    /\ UNCHANGED <<source_analyses, collectionTables, lessonTables, clock>>

SinglePipelineStep(p) ==
    \/ PS_MarkProcessing(p) \/ PS_AnalyzeSource(p) \/ PS_SaveAnalysis(p)
    \/ PS_GetSourceTitle(p) \/ PS_GenerateLesson(p)
    \/ PS_InsertCourse(p) \/ PS_InsertModule(p) \/ PS_InsertMapping(p)
    \/ PS_InsertObjective(p) \/ PS_InsertActivity(p)
    \/ PS_CreateNotebook(p) \/ PS_MarkCompleted(p) \/ PS_Catch(p)

\* ------------------------------ POST /api/sources/from-notebook (route)
\* Step 1: the Source row is inserted with status 'processing'; a rejected
\* insert answers 500 and nothing else happens.
fromNotebook(p) ==
    /\ Finished(p)
    /\ \E outcome \in {"ok", "error"} :
        IF outcome = "ok"
        THEN /\ sources' = Append(sources, [status |-> "processing", error_message |-> ""])
             /\ inv' = Set(p, NewInv("notebook", "nb_save_analysis", "notebooklm", FALSE,
                                     FALSE, Len(sources) + 1))
        ELSE /\ sources' = sources
             /\ inv' = Set(p, End([NewInv("notebook", "thrown", "notebooklm", FALSE,
                                              FALSE, 0) EXCEPT !.error = "source"],
                                   "thrown"))
    /\ UNCHANGED <<source_analyses, collectionTables, lessonTables, clock>>

\* Step 2: the analysis insert; its result is not inspected.
NB_SaveAnalysis(p) ==
    LET r == inv[p] IN
    /\ r.op = "notebook" /\ r.pc = "nb_save_analysis"
    /\ \E outcome \in {"ok", "error"} :
        IF outcome = "ok"
        THEN /\ source_analyses' = InsertAnalysis(source_analyses, r.source)
        ELSE UNCHANGED source_analyses
    /\ inv' = Set(p, [r EXCEPT !.pc = "nb_generate"])
    /\ UNCHANGED <<sources, collectionTables, lessonTables, clock>>

\* Step 3: claudeService.generateLesson.
NB_GenerateLesson(p) ==
    LET r == inv[p] IN
    /\ r.op = "notebook" /\ r.pc = "nb_generate"
    /\ \/ \E lesson \in LessonTrees :
            inv' = Set(p, IF ClaudeAccepts(lesson)
                          THEN [r EXCEPT !.lesson = lesson, !.pc = "sl_course"]
                          ELSE Throw(r, "error", "generation"))
       \/ inv' = Set(p, Throw(r, "error", "generation"))
    /\ UNCHANGED store

\* Step 4: the inline copy of saveLesson.
NB_InsertCourse(p) ==
    InsertCourse(p, "notebook", [collection_id |-> NoCollection, notebook_id |-> TRUE], FALSE)
NB_InsertModule(p) == InsertModule(p, "notebook", TRUE)
NB_InsertMapping(p) == InsertMapping(p, "notebook")
NB_InsertObjective(p) == InsertObjective(p, "notebook")
NB_InsertActivity(p) == InsertActivity(p, "notebook", FALSE)

\* Step 5: mark the Source completed and answer.
NB_MarkCompleted(p) ==
    LET r == inv[p] IN
    /\ r.op = "notebook" /\ r.pc = "nb_completed"
    /\ sources' = updateSourceStatus(sources, r.source, "completed")
    /\ inv' = Set(p, End(r, "returned"))
    /\ UNCHANGED <<source_analyses, collectionTables, lessonTables, clock>>

\* catch (processingError): mark the Source failed, rethrow (answer 500).
NB_Catch(p) ==
    LET r == inv[p] IN
    /\ r.op = "notebook" /\ r.pc = "nb_catch"
    /\ sources' = updateSourceStatus(sources, r.source, "failed")
    /\ inv' = Set(p, End(r, "thrown"))
    /\ UNCHANGED <<source_analyses, collectionTables, lessonTables, clock>>

NotebookRouteStep(p) ==
    \/ NB_SaveAnalysis(p) \/ NB_GenerateLesson(p)
    \/ NB_InsertCourse(p) \/ NB_InsertModule(p) \/ NB_InsertMapping(p)
    \/ NB_InsertObjective(p) \/ NB_InsertActivity(p)
    \/ NB_MarkCompleted(p) \/ NB_Catch(p)

\* ------------------- CollectionOrchestrator.addSourceToCollection
\* Steps 1-2: getCollectionOrgId, the title, and the Source insert with status
\* 'processing'. A rejected insert is thrown; the catch block wraps and
\* rethrows every error without writing anything.
addSourceToCollection(p) ==
    /\ Finished(p)
    /\ Len(sources) < MaxSources
    /\ \E sourceType \in SourceTypes, hasFile \in BOOLEAN :
        /\ sourceType = "youtube" => ~hasFile
        /\ \E outcome \in {"ok", "error"} :
            IF outcome = "ok"
            THEN /\ sources' = Append(sources, [status |-> "processing", error_message |-> ""])
                 /\ inv' = Set(p, NewInv("add",
                                         IF sourceType = "youtube" THEN "as_transcript"
                                         ELSE IF hasFile THEN "as_upload"
                                         ELSE "as_max_order",
                                         sourceType, hasFile, FALSE, Len(sources) + 1))
            ELSE /\ sources' = sources
                 /\ inv' = Set(p, End([NewInv("add", "thrown", sourceType, hasFile,
                                              FALSE, 0) EXCEPT !.error = "source"],
                                   "thrown"))
    /\ UNCHANGED <<source_analyses, collectionTables, lessonTables, clock>>

\* YouTube: this.transcript.fetchYouTubeTranscript(sourceUrl).
AS_FetchTranscript(p) ==
    LET r == inv[p] IN
    /\ r.op = "add" /\ r.pc = "as_transcript"
    /\ \E outcome \in {"ok", "error"} :
        inv' = Set(p, IF outcome = "ok" THEN [r EXCEPT !.pc = "as_analyze"] 
                      ELSE Throw(r, outcome, "transcript"))
    /\ UNCHANGED store

\* GeminiDocumentService.analyzeDocument, the wait for the remote file: the
\* states a file can report, and where the code goes on each of them.
FileStates == {"PROCESSING", "ACTIVE", "FAILED"}
AfterFileState(r, state) ==
    CASE state = "PROCESSING" -> [r EXCEPT !.pc = "as_poll_wait"]
      [] state = "FAILED"     -> Throw(r, "error", "analysis")
      [] OTHER                -> [r EXCEPT !.pc = "as_analyze"]

\* fileManager.uploadFile(tempPath, ...): the uploaded file with its state.
AS_UploadFile(p) ==
    LET r == inv[p] IN
    /\ r.op = "add" /\ r.pc = "as_upload"
    /\ \/ \E state \in FileStates : inv' = Set(p, AfterFileState(r, state))
       \/ inv' = Set(p, Throw(r, "error", "analysis"))
    /\ UNCHANGED store

\* while (file.state === PROCESSING): the 3000 ms timer has fired.
AS_PollWait(p) ==
    LET r == inv[p] IN
    /\ r.op = "add" /\ r.pc = "as_poll_wait"
    /\ inv' = Set(p, [r EXCEPT !.pc = "as_get_file"])
    /\ UNCHANGED store

\* file = await fileManager.getFile(file.name), and the loop test again.
AS_GetFile(p) ==
    LET r == inv[p] IN
    /\ r.op = "add" /\ r.pc = "as_get_file"
    /\ \/ \E state \in FileStates : inv' = Set(p, AfterFileState(r, state))
       \/ inv' = Set(p, Throw(r, "error", "analysis"))
    /\ UNCHANGED store

\* geminiVideo.analyzeVideo / the document's model.generateContent.
AS_Analyze(p) ==
    LET r == inv[p] IN
    /\ r.op = "add" /\ r.pc = "as_analyze"
    /\ \E outcome \in {"ok", "error"} :
        inv' = Set(p, IF outcome = "ok" THEN [r EXCEPT !.pc = "as_save_analysis"] 
                      ELSE Throw(r, outcome, "analysis"))
    /\ UNCHANGED store

\* (YouTube: the transcript update, whose result is not inspected, and) the
\* source_analyses insert, whose error is thrown.
AS_SaveAnalysis(p) ==
    LET r == inv[p] IN
    /\ r.op = "add" /\ r.pc = "as_save_analysis"
    /\ \E outcome \in {"ok", "error"} :
        IF outcome = "ok"
        THEN /\ source_analyses' = InsertAnalysis(source_analyses, r.source)
             /\ inv' = Set(p, [r EXCEPT !.pc = "as_max_order"])
        ELSE /\ UNCHANGED source_analyses
             /\ inv' = Set(p, Throw(r, outcome, "save_analysis"))
    /\ UNCHANGED <<sources, collectionTables, lessonTables, clock>>

\* getMaxOrderIndex: the largest order_index of the Collection, or -1.
RECURSIVE MaxOrder(_)
MaxOrder(cs) ==
    IF cs = << >> THEN -1
    ELSE LET m == MaxOrder(Tail(cs))
         IN  IF Head(cs).order_index > m THEN Head(cs).order_index ELSE m

AS_GetMaxOrderIndex(p) ==
    LET r == inv[p] IN
    /\ r.op = "add" /\ r.pc = "as_max_order"
    /\ inv' = Set(p, [r EXCEPT !.maxOrder = MaxOrder(collection_sources), !.pc = "as_link"])
    /\ UNCHANGED store

\* Step 4: the collection_sources insert at order_index maxOrder + 1.
AS_LinkThrowsAfterInsert(p) ==
    LET r == inv[p] IN
    /\ r.op = "add" /\ r.pc = "as_link"
    /\ collection_sources' = Append(collection_sources,
                                    [source_id |-> r.source,
                                     order_index |-> r.maxOrder + 1,
                                     added_at |-> clock + 1])
    /\ clock' = clock + 1
    /\ \E outcome \in {"ok", "error"} :
        inv' = Set(p, IF outcome = "ok" THEN [r EXCEPT !.pc = "as_completed"]
                      ELSE Throw(r, outcome, "link"))
    /\ UNCHANGED <<sources, source_analyses, collection, collection_analyses, lessonTables>>
AS_Link(p) ==
    LET r == inv[p] IN
    /\ r.op = "add" /\ r.pc = "as_link"
    /\ \E outcome \in {"ok", "error"} :
        IF outcome = "ok"
        THEN /\ collection_sources' = Append(collection_sources,
                                             [source_id |-> r.source,
                                              order_index |-> r.maxOrder + 1,
                                              added_at |-> clock + 1])
             /\ clock' = clock + 1
             /\ inv' = Set(p, [r EXCEPT !.pc = "as_completed"])
        ELSE /\ UNCHANGED <<collection_sources, clock>>
             /\ inv' = Set(p, Throw(r, outcome, "link"))
    /\ UNCHANGED <<sources, source_analyses, collection, collection_analyses, lessonTables>>

\* Step 5: mark the Source completed.
AS_MarkCompletedWithCourse(p) ==
    LET r == inv[p] IN
    /\ r.op = "add" /\ r.pc = "as_completed"
    /\ sources' = updateSourceStatus(sources, r.source, "completed")
    /\ courses' = Append(courses, [collection_id |-> CollectionId, notebook_id |-> FALSE])
    /\ inv' = Set(p, [r EXCEPT !.pc = "as_building"])
    /\ UNCHANGED <<source_analyses, collectionTables, modules, lesson_source_mappings,
                   learning_objectives, learning_activities, clock>>
AS_MarkCompleted(p) ==
    LET r == inv[p] IN
    /\ r.op = "add" /\ r.pc = "as_completed"
    /\ sources' = updateSourceStatus(sources, r.source, "completed")
    /\ inv' = Set(p, [r EXCEPT !.pc = "as_building"])
    /\ UNCHANGED <<source_analyses, collectionTables, lessonTables, clock>>

\* The Collection status written when a member was added.
MarkNeedsReanalysisNoWrite(c) == c
MarkNeedsReanalysis(c) == [c EXCEPT !.status = "building"]

\* Step 6: mark the Collection as needing re-analysis, return source.id.
AS_MarkBuilding(p) ==
    LET r == inv[p] IN
    /\ r.op = "add" /\ r.pc = "as_building"
    /\ collection' = MarkNeedsReanalysis(collection)
    /\ inv' = Set(p, End(r, "returned"))
    /\ UNCHANGED <<sources, source_analyses, collection_sources, collection_analyses,
                   lessonTables, clock>>

AddSourceStep(p) ==
    \/ AS_FetchTranscript(p) \/ AS_UploadFile(p) \/ AS_PollWait(p) \/ AS_GetFile(p)
    \/ AS_Analyze(p) \/ AS_SaveAnalysis(p)
    \/ AS_GetMaxOrderIndex(p) \/ AS_Link(p) \/ AS_MarkCompleted(p) \/ AS_MarkBuilding(p)

\* --------------------------------- CollectionAnalyzer.analyzeCollection
\* The orders in which the store may return the join rows (the query has no
\* ORDER BY).
ReturnOrders(n) ==
    { f \in [1..n -> 1..n] : \A a, b \in 1..n : a # b => f[a] # f[b] }

\* POST /api/collections/[collectionId]/analyze: rejected with 400 unless the
\* Collection has at least 2 members; then analyzer.analyzeCollection.
analyzeRoute(p) ==
    /\ Finished(p)
    /\ Len(collection_analyses) < MaxCollectionAnalyses
    /\ Len(collection_sources) >= 2
    /\ inv' = Set(p, [IdleInv EXCEPT !.op = "analyze", !.pc = "an_fetch"])
    /\ UNCHANGED store

\* Where an error inside analyzeCollection's try block lands.
AnalyzerRaise(r, step) == [r EXCEPT !.pc = "an_catch", !.error = step]

\* Step 1: fetch the collection with its collection_sources and sources; when
\* the read yields nothing, 'Collection not found' is thrown.
AN_Fetch(p) ==
    LET r == inv[p] IN
    /\ r.op \in {"analyze", "generate"} /\ r.pc = "an_fetch"
    /\ \/ \E f \in ReturnOrders(Len(collection_sources)) :
            inv' = Set(p, [r EXCEPT !.members = [k \in 1..Len(collection_sources) |->
                                                    collection_sources[f[k]].source_id],
                                    !.pc = "an_ensure"])
       \/ inv' = Set(p, AnalyzerRaise(r, "fetch"))
    /\ UNCHANGED store

\* ensureSourceAnalyses: for each source the source_analyses row read with
\* .single(), which yields a row only when exactly one matches; a source
\* without one is skipped. The reads are taken together: the analysis rows of
\* a linked Source are all written before its link.
AnalysisRows(sourceId) ==
    { a \in 1..Len(source_analyses) : source_analyses[a].source_id = sourceId }

\* The row .single() yields for a source: the matching row when exactly one
\* matches, otherwise none (data is null).
NoRow == 0
existingAnalysis(sourceId) ==
    IF Cardinality(AnalysisRows(sourceId)) = 1
    THEN CHOOSE a \in AnalysisRows(sourceId) : TRUE
    ELSE NoRow

ensureSourceAnalysesNoSkip(srcs) ==
    [k \in 1..Len(srcs) |-> [sourceId |-> srcs[k], row |-> existingAnalysis(srcs[k])]]
RECURSIVE ensureSourceAnalyses(_)
ensureSourceAnalyses(srcs) ==
    IF srcs = << >> THEN << >>
    ELSE (IF existingAnalysis(Head(srcs)) # NoRow
          THEN <<[sourceId |-> Head(srcs), row |-> existingAnalysis(Head(srcs))]>>
          ELSE << >>)
         \o ensureSourceAnalyses(Tail(srcs))

AN_EnsureSourceAnalyses(p) ==
    LET r == inv[p] IN
    /\ r.op \in {"analyze", "generate"} /\ r.pc = "an_ensure"
    /\ inv' = Set(p, [r EXCEPT !.analyses = ensureSourceAnalyses(r.members),
                               !.pc = "an_synthesize"])
    /\ UNCHANGED store

\* Step 3: synthesizeAcrossAnalyses (the Synthesis Adapter call).
AN_Synthesize(p) ==
    LET r == inv[p] IN
    /\ r.op \in {"analyze", "generate"} /\ r.pc = "an_synthesize"
    /\ \E outcome \in {"ok", "error"} :
        inv' = Set(p, IF outcome = "ok" THEN [r EXCEPT !.pc = "an_insert"]
                      ELSE AnalyzerRaise(r, "synthesis"))
    /\ UNCHANGED store

\* buildSynthesisPrompt pairs analyses[idx] with sources[idx].
SynthesisInput(members, analyses) ==
    [k \in 1..Len(analyses) |-> [source |-> members[k], analysis |-> analyses[k]]]

\* Step 4: the collection_analyses insert.
AN_Insert(p) ==
    LET r == inv[p] IN
    /\ r.op \in {"analyze", "generate"} /\ r.pc = "an_insert"
    /\ \E outcome \in {"ok", "error"} :
        IF outcome = "ok"
        THEN /\ collection_analyses' =
                    Append(collection_analyses,
                           [analysis_data |-> SynthesisInput(r.members, r.analyses),
                            sources_analyzed |-> Len(r.analyses),
                            created_at |-> clock + 1])
             /\ clock' = clock + 1
             /\ inv' = Set(p, [r EXCEPT !.analysis = Len(collection_analyses) + 1,
                                        !.pc = "an_ready"])
        ELSE /\ UNCHANGED <<collection_analyses, clock>>
             /\ inv' = Set(p, AnalyzerRaise(r, "persist"))
    /\ UNCHANGED <<sources, source_analyses, collection, collection_sources, lessonTables>>

\* Step 5: status 'ready', analysis_completed_at; return savedAnalysis.
AN_MarkReady(p) ==
    LET r == inv[p] IN
    /\ r.op \in {"analyze", "generate"} /\ r.pc = "an_ready"
    /\ collection' = [status |-> "ready", analysis_completed_at |-> clock]
    /\ inv' = Set(p, IF r.op = "generate" THEN [r EXCEPT !.pc = "gen_generate"]
                     ELSE End(r, "returned"))
    /\ UNCHANGED <<sources, source_analyses, collection_sources, collection_analyses,
                   lessonTables, clock>>

\* The status write of analyzeCollection's catch block.
MarkAnalysisFailedNoWrite(c) == c
MarkAnalysisFailed(c) == [c EXCEPT !.status = "failed"]

\* catch: mark the Collection failed, rethrow.
AN_Catch(p) ==
    LET r == inv[p] IN
    /\ r.op \in {"analyze", "generate"} /\ r.pc = "an_catch"
    /\ collection' = MarkAnalysisFailed(collection)
    /\ inv' = Set(p, End(r, "thrown"))
    /\ UNCHANGED <<sources, source_analyses, collection_sources, collection_analyses,
                   lessonTables, clock>>

AnalyzeStep(p) ==
    \/ AN_Fetch(p) \/ AN_EnsureSourceAnalyses(p) \/ AN_Synthesize(p)
    \/ AN_Insert(p) \/ AN_MarkReady(p) \/ AN_Catch(p)

\* ------------------- CollectionOrchestrator.processCollectionToLesson
\* POST /api/collections/[collectionId]/generate: rejected with 400 when the
\* Collection has no member; then orchestrator.processCollectionToLesson.
generateRoute(p) ==
    /\ Finished(p)
    /\ Len(courses) < MaxCourses
    /\ Len(collection_sources) >= 1
    /\ inv' = Set(p, [IdleInv EXCEPT !.op = "generate", !.pc = "gen_ensure"])
    /\ UNCHANGED store

\* The row ensureCollectionAnalysis reads: order by created_at descending,
\* limit 1 (created_at grows with the position in the table).
LatestAnalysis == Len(collection_analyses)

\* Step 1: ensureCollectionAnalysis. An existing analysis is returned as it
\* is; only when there is none does analyzer.analyzeCollection run.
GEN_EnsureCollectionAnalysis(p) ==
    LET r == inv[p] IN
    /\ r.op = "generate" /\ r.pc = "gen_ensure"
    /\ inv' = Set(p, IF LatestAnalysis > 0
                     THEN [r EXCEPT !.analysis = LatestAnalysis, !.pc = "gen_generate"]
                     ELSE [r EXCEPT !.pc = "an_fetch"])
    /\ UNCHANGED store

\* Step 2: lessonService.generateFromCollection(collectionId, analysis_data);
\* the parsed answer is returned as it is.
GEN_GenerateFromCollection(p) ==
    LET r == inv[p] IN
    /\ r.op = "generate" /\ r.pc = "gen_generate"
    /\ \/ \E lesson \in LessonTrees :
            inv' = Set(p, [r EXCEPT !.lesson = lesson, !.pc = "sl_course"])
       \/ inv' = Set(p, Throw(r, "error", "generation"))
    /\ UNCHANGED store

\* Step 3: saveLesson(lesson, collectionId, organizationId).
CO_InsertCourse(p) ==
    InsertCourse(p, "generate", [collection_id |-> CollectionId, notebook_id |-> FALSE], FALSE)
CO_InsertModule(p) == InsertModule(p, "generate", FALSE)
CO_InsertObjective(p) == InsertObjective(p, "generate")
CO_InsertActivity(p) == InsertActivity(p, "generate", FALSE)

GenerateStep(p) ==
    \/ GEN_EnsureCollectionAnalysis(p) \/ GEN_GenerateFromCollection(p)
    \/ CO_InsertCourse(p) \/ CO_InsertModule(p)
    \/ CO_InsertObjective(p) \/ CO_InsertActivity(p)

\* -------------------------------------------------------- specifications
\* SpecColl: addSourceToCollection and analyze invocations on one Collection,
\* running concurrently (each request is served independently).
NextColl ==
    \E p \in Procs :
        \/ addSourceToCollection(p)
        \/ AddSourceStep(p)
        \/ analyzeRoute(p)
        \/ AnalyzeStep(p)

SpecColl == Init /\ [][NextColl]_vars

\* SpecGenerate: requests on one Collection served one after the other (one
\* invocation slot): add, analyze and generate.
NextGenerate ==
    \E p \in {1} :
        \/ NoneRunning /\ addSourceToCollection(p)
        \/ AddSourceStep(p)
        \/ NoneRunning /\ analyzeRoute(p)
        \/ AnalyzeStep(p)
        \/ NoneRunning /\ generateRoute(p)
        \/ GenerateStep(p)

SpecGenerate == Init /\ [][NextGenerate]_vars

\* SpecAddLive: addSourceToCollection calls one after the other, where every
\* awaited call (storage round-trip, remote call, timer) eventually returns:
\* the step that follows an await is eventually taken.
NextAddLive ==
    \E p \in {1} :
        \/ addSourceToCollection(p)
        \/ AddSourceStep(p)

SpecAddLive == Init /\ [][NextAddLive]_vars /\ WF_vars(AddSourceStep(1))

\* SpecAnalyzer: analyzeCollection applied to a Collection of two completed
\* members whose Content Analysis rows are drawn from every table content of
\* up to MaxAnalysisRows rows (source_analyses has no uniqueness constraint on
\* source_id, and rows are only ever appended).
AnalysisTables ==
    UNION { [1..n -> { [source_id |-> s] : s \in 1..2 }] : n \in 0..MaxAnalysisRows }

InitAnalyzer ==
    /\ sources = [s \in 1..2 |-> [status |-> "completed", error_message |-> ""]]
    /\ source_analyses \in AnalysisTables
    /\ collection = [status |-> "building", analysis_completed_at |-> 0]
    /\ collection_sources = [s \in 1..2 |-> [source_id |-> s, order_index |-> s - 1,
                                              added_at |-> s]]
    /\ collection_analyses = << >>
    /\ courses = << >>
    /\ modules = << >>
    /\ lesson_source_mappings = << >>
    /\ learning_objectives = << >>
    /\ learning_activities = << >>
    /\ clock = 2
    /\ inv = [p \in Procs |-> IdleInv]

NextAnalyzer ==
    \E p \in {1} :
        \/ analyzeRoute(p)
        \/ AnalyzeStep(p)

SpecAnalyzer == InitAnalyzer /\ [][NextAnalyzer]_vars

\* Spec: one invocation of the single-source pipeline or of the from-notebook
\* route against the empty store (invocations for different Sources share
\* no state).
Next ==
    \E p \in Procs :
        \/ NeverInvoked /\ processSourceToLesson(p)
        \/ SinglePipelineStep(p)
        \/ NeverInvoked /\ fromNotebook(p)
        \/ NotebookRouteStep(p)

Spec == Init /\ [][Next]_vars

\* ------------------------------------------------------------- properties
\* C1: single-source pipeline: when a step after the Source was set to
\* 'processing' raises and the error reaches the caller, the stored status
\* of that Source is 'failed'.
C1_FailureMarksSourceFailed ==
    \A p \in Procs :
        (inv[p].op = "single" /\ inv[p].pc = "thrown" /\ inv[p].source # 0)
            => sources[inv[p].source].status = "failed"

\* C1 witness: the pipeline has thrown out of materialization (a Course and
\* a Module row exist) and its Source is 'failed'.
C1_Witness ==
    \E p \in Procs :
        /\ inv[p].op = "single" /\ inv[p].pc = "thrown" /\ inv[p].source # 0
        /\ Len(modules) > 0
        /\ sources[inv[p].source].status = "failed"

\* The rows a lesson tree materializes into.
RECURSIVE ObjectiveCount(_)
ObjectiveCount(ms) ==
    IF ms = << >> THEN 0 ELSE Len(Head(ms).objectives) + ObjectiveCount(Tail(ms))

NoLessonRows ==
    /\ courses = << >> /\ modules = << >> /\ lesson_source_mappings = << >>
    /\ learning_objectives = << >> /\ learning_activities = << >>

\* C2: materialization is all-or-nothing: once an invocation of the
\* single-source pipeline has ended, either no row of its lesson exists or
\* the Course and all of its Modules and Objectives exist.
C2_MaterializationAllOrNothing ==
    \A p \in Procs :
        (inv[p].op = "single" /\ Finished(p))
            => \/ NoLessonRows
               \/ /\ Len(courses) = 1
                  /\ Len(modules) = Len(inv[p].lesson.modules)
                  /\ Len(learning_objectives) = ObjectiveCount(inv[p].lesson.modules)

\* C3: once every pipeline invocation has returned, a Source is 'completed'
\* if and only if it has at least one Content Analysis row.
C3_CompletedIffAnalysed ==
    NoneRunning =>
        \A s \in 1..Len(sources) :
            (sources[s].status = "completed") <=> (AnalysisRows(s) # {})

\* C4: single-source pipeline: a lesson tree that is not valid (no module, a
\* module without objective, a module without terminal objective) never
\* reaches materialization: while the tree is invalid no Course row exists.
C4_InvalidTreeNeverMaterialized ==
    \A p \in Procs :
        (inv[p].op = "single" /\ courses # << >>) => validateLesson(inv[p].lesson)

\* C5: every Source is created 'pending' and its status only moves
\* pending -> processing, processing -> completed, processing -> failed.
C5_SourceStatusTransitions ==
    [][\A s \in 1..Len(sources') :
          IF s > Len(sources)
          THEN sources'[s].status = "pending"
          ELSE \/ sources'[s].status = sources[s].status
               \/ <<sources[s].status, sources'[s].status>> \in
                      { <<"pending", "processing">>,
                        <<"processing", "completed">>,
                        <<"processing", "failed">> }]_vars

\* C6: at the moment addSourceToCollection returns successfully the
\* Collection status is 'building', whatever it was before ('ready' included).
C6_AddLeavesBuilding ==
    [][\A p \in Procs :
          (inv[p].op = "add" /\ inv[p].pc # "returned"
                             /\ inv'[p].op = "add" /\ inv'[p].pc = "returned")
              => collection'.status = "building"]_vars

\* C6 witness: the Collection was analysed ('ready'), then a member was added
\* by an invocation that has returned, and the Collection is 'building'.
C6_Witness ==
    \E p \in Procs :
        /\ inv[p].op = "add" /\ inv[p].pc = "returned"
        /\ collection.analysis_completed_at # 0
        /\ collection.status = "building"
        /\ \E m \in 1..Len(collection_sources) :
            /\ collection_sources[m].source_id = inv[p].source
            /\ collection_sources[m].added_at > collection.analysis_completed_at

\* The analysis was produced after every current member was added.
AnalysisCurrent(a) ==
    /\ a \in 1..Len(collection_analyses)
    /\ \A m \in 1..Len(collection_sources) :
        collection_sources[m].added_at < collection_analyses[a].created_at

\* C7: under any interleaving of add and analyze invocations, once they have
\* all ended a 'ready' Collection has a latest Collection Analysis produced
\* after every current member was added.
C7_ReadyMeansCurrent ==
    (NoneRunning /\ collection.status = "ready") => AnalysisCurrent(LatestAnalysis)

\* C8: processCollectionToLesson generates a lesson only from a Collection
\* Analysis that is current.
C8_GeneratesFromCurrentAnalysis ==
    \A p \in Procs :
        (inv[p].op = "generate" /\ inv[p].pc = "sl_course")
            => AnalysisCurrent(inv[p].analysis)

\* C9: when addSourceToCollection has ended (returned or thrown) after
\* creating its Source row, that Source is not 'processing'.
C9_AddNeverLeavesProcessing ==
    \A p \in Procs :
        (inv[p].op = "add" /\ Finished(p) /\ inv[p].source # 0)
            => sources[inv[p].source].status # "processing"

\* C10: a Source whose status is 'failed' carries a non-empty error detail.
C10_FailedHasErrorDetail ==
    \A s \in 1..Len(sources) :
        sources[s].status = "failed" => sources[s].error_message # ""

\* C11: single-source pipeline: when the analysis step fails, no Content
\* Analysis row is inserted for the Source, no lesson is generated or
\* materialized, and once the error has reached the caller the Source is
\* 'failed'.
C11_AnalysisFailureStopsPipeline ==
    \A p \in Procs :
        (inv[p].op = "single" /\ inv[p].error = "analysis")
            => /\ inv[p].pc \in {"ps_catch", "thrown"}
               /\ AnalysisRows(inv[p].source) = {}
               /\ inv[p].lesson = NoLesson /\ NoLessonRows
               /\ inv[p].pc = "thrown" => sources[inv[p].source].status = "failed"

\* C11 witness: the analysis adapter failed and the error reached the caller.
C11_Witness ==
    \E p \in Procs :
        /\ inv[p].op = "single" /\ inv[p].error = "analysis" /\ inv[p].pc = "thrown"
        /\ sources[inv[p].source].status = "failed"
        /\ source_analyses = << >>

\* C12: analyzeCollection leaves its try block with the Collection 'ready'
\* only after its own Collection Analysis row was inserted; 'ready' is
\* written by no other step; and when analyzeCollection throws (fetch,
\* synthesis or insert failed) the Collection is 'failed' at that moment.
C12_ReadyOnlyOnSuccess ==
    [][/\ \A p \in Procs :
            /\ (inv[p].pc = "an_ready" /\ inv'[p].pc # "an_ready")
                   => /\ collection'.status = "ready"
                      /\ inv[p].analysis \in 1..Len(collection_analyses)
                      /\ inv[p].error = ""
            /\ (inv[p].pc = "an_catch" /\ inv'[p].pc = "thrown")
                   => /\ collection'.status = "failed"
                      /\ inv'[p].error \in {"fetch", "synthesis", "persist"}
       /\ (collection'.status = "ready" /\ collection.status # "ready")
              => \E p \in Procs : inv[p].pc = "an_ready" /\ inv'[p].pc # "an_ready"]_vars

\* C12 witness: one analyze invocation has returned with its analysis row,
\* an overlapping one has thrown and left the Collection 'failed'.
C12_Witness ==
    \E p, q \in Procs :
        /\ inv[p].op = "analyze" /\ inv[p].pc = "returned"
        /\ inv[p].analysis \in 1..Len(collection_analyses)
        /\ inv[q].op = "analyze" /\ inv[q].pc = "thrown"
        /\ collection.status = "failed"

\* C13: two overlapping analyzeCollection invocations on the Collection
\* never both run the synthesis: at most one invocation is at the synthesis
\* call or at the insert of its Collection Analysis row.
C13_OneSynthesisAtATime ==
    \A p, q \in Procs :
        (p # q /\ inv[p].pc \in {"an_synthesize", "an_insert"})
            => inv[q].pc \notin {"an_synthesize", "an_insert"}

\* C14: single-source pipeline: a failure of the notebook integration after
\* the lesson was saved never is the error of the invocation, and an
\* invocation that returns holds the id of its Course and leaves its Source
\* 'completed'.
C14_NotebookFailureNotFatal ==
    \A p \in Procs :
        inv[p].op = "single"
            => /\ inv[p].error # "notebook"
               /\ inv[p].pc = "returned"
                    => /\ inv[p].courseId \in 1..Len(courses)
                       /\ sources[inv[p].source].status = "completed"

\* C14 witness: the invocation has returned although the notebook
\* integration failed (the Course carries no notebook id).
C14_Witness ==
    \E p \in Procs :
        /\ inv[p].op = "single" /\ inv[p].pc = "returned"
        /\ inv[p].courseId \in 1..Len(courses)
        /\ ~courses[inv[p].courseId].notebook_id
        /\ sources[inv[p].source].status = "completed"

\* C15: when processCollectionToLesson fails in lesson generation or in
\* materialization, the Collection is 'failed' once the error has reached the
\* caller.
C15_GenerateFailureMarksFailed ==
    \A p \in Procs :
        (inv[p].op = "generate" /\ inv[p].pc = "thrown"
                                /\ inv[p].error \in {"generation", "materialization"})
            => collection.status = "failed"

\* C16: processCollectionToLesson persists a Course only for a valid lesson
\* tree (at least one module, every module with an objective and a terminal
\* objective).
C16_CollectionCourseOnlyForValidTree ==
    \A p \in Procs :
        (inv[p].op = "generate" /\ courses # << >>) => validateLesson(inv[p].lesson)

\* The persisted children of a Module and of an Objective.
ObjectiveRowsOf(m) ==
    { o \in 1..Len(learning_objectives) : learning_objectives[o].module_id = m }
ActivityRowsOf(o) ==
    { a \in 1..Len(learning_activities) : learning_activities[a].learning_objective_id = o }

\* Order indices exactly 0..n-1 within every sibling set, none twice.
OrderIndicesDense ==
    /\ \A m \in 1..Len(modules) :
        /\ { learning_objectives[o].order_index : o \in ObjectiveRowsOf(m) }
               = 0..(Cardinality(ObjectiveRowsOf(m)) - 1)
    /\ \A o \in 1..Len(learning_objectives) :
        /\ { learning_activities[a].order_index : a \in ActivityRowsOf(o) }
               = 0..(Cardinality(ActivityRowsOf(o)) - 1)

\* C17: after a successfully returned run of the collection pipeline the
\* persisted Objectives of each Module and Activities of each Objective carry
\* order indices exactly 0..n-1, without gap or duplicate.
C17_OrderIndicesDense ==
    \A p \in Procs :
        (inv[p].op = "generate" /\ inv[p].pc = "returned") => OrderIndicesDense

\* The persisted Modules of a Course.
ModuleRowsOf(c) == { m \in 1..Len(modules) : modules[m].course_id = c }

\* C18: the Course persisted by a successfully returned run of the
\* single-source pipeline has module numbers exactly 1..n, none twice.
C18_ModuleNumbersDense ==
    \A p \in Procs :
        (inv[p].op = "single" /\ inv[p].pc = "returned")
            => { modules[m].module_number : m \in ModuleRowsOf(inv[p].courseId) }
                   = 1..Cardinality(ModuleRowsOf(inv[p].courseId))

\* The number of Objective and Activity rows a lesson tree materializes into.
RECURSIVE ObjectiveAndActivityCount(_)
ObjectiveAndActivityCount(ms) ==
    IF ms = << >> THEN 0
    ELSE ObjectivesSize(Head(ms).objectives) + ObjectiveAndActivityCount(Tail(ms))

\* The analysis row, the Course and every Module, Objective and Activity of
\* the invocation's tree are persisted.
TreePersisted(r) ==
    /\ AnalysisRows(r.source) # {}
    /\ r.courseId \in 1..Len(courses)
    /\ Cardinality(ModuleRowsOf(r.courseId)) = Len(r.lesson.modules)
    /\ Len(learning_objectives) = ObjectiveCount(r.lesson.modules)
    /\ Len(learning_objectives) + Len(learning_activities)
           = ObjectiveAndActivityCount(r.lesson.modules)

\* Every Module of the Course has a Lesson-Source Mapping row to the Source.
MappingsPersisted(r) ==
    \A m \in ModuleRowsOf(r.courseId) :
        \E k \in 1..Len(lesson_source_mappings) :
            lesson_source_mappings[k] = [source_id |-> r.source, module_id |-> m]

\* C19: single-source pipeline: a Source is 'completed' only when its
\* analysis row, the Course, every Module, Objective and Activity of the tree
\* and one mapping row per Module back to the Source are persisted.
C19_CompletedOnlyAfterAllPersisted ==
    \A p \in Procs :
        (inv[p].op = "single" /\ inv[p].source # 0
                              /\ sources[inv[p].source].status = "completed")
            => TreePersisted(inv[p]) /\ MappingsPersisted(inv[p])

\* C20: Content Analysis rows are append-only: every step keeps the existing
\* rows as they are and adds at most one, and a step in which an analysis
\* save succeeds adds exactly one row, for the Source of that invocation.
C20_AnalysesAppendOnly ==
    [][/\ Len(source_analyses') \in {Len(source_analyses), Len(source_analyses) + 1}
       /\ \A k \in 1..Len(source_analyses) : source_analyses'[k] = source_analyses[k]
       /\ \A p \in Procs :
            \/ (inv[p].pc = "ps_save_analysis" /\ inv'[p].pc = "ps_title")
            \/ (inv[p].pc = "as_save_analysis" /\ inv'[p].pc = "as_max_order")
            => source_analyses' = Append(source_analyses, [source_id |-> inv[p].source])]_vars

\* C20 witness: two add invocations have each saved their analysis: two
\* rows, for different Sources, in the order they were saved.
C20_Witness ==
    /\ Len(source_analyses) = 2
    /\ source_analyses[1].source_id # source_analyses[2].source_id
    /\ \E p \in Procs : inv[p].op = "add" /\ inv[p].pc = "as_max_order"
                        /\ inv[p].source = source_analyses[2].source_id

\* C21: addSourceToCollection never generates a lesson and leaves the Course,
\* Module, Objective, Activity and Lesson-Source Mapping tables unchanged:
\* every step of an add invocation keeps them, and the invocation holds no
\* lesson, whether it returns or throws.
C21_AddLeavesLessonTables ==
    [][\A p \in Procs :
          (inv'[p].op = "add" /\ inv'[p] # inv[p])
              => /\ UNCHANGED lessonTables
                 /\ inv'[p].lesson = NoLesson /\ inv'[p].courseId = 0]_vars

\* C21 witness: a Course with a Module exists, and an add invocation that
\* linked its Source after them has returned.
C21_Witness ==
    \E p \in Procs :
        /\ inv[p].op = "add" /\ inv[p].pc = "returned"
        /\ courses # << >> /\ modules # << >>
        /\ \E m \in 1..Len(collection_sources) :
            /\ collection_sources[m].source_id = inv[p].source
            /\ m > 1

\* C22: no two members of the Collection share an order index, also when
\* addSourceToCollection invocations interleave.
C22_OrderIndexUnique ==
    \A a, b \in 1..Len(collection_sources) :
        a # b => collection_sources[a].order_index # collection_sources[b].order_index

\* C23: a Collection Source row exists only for a Source that has at least
\* one Content Analysis row, for every source type and input.
C23_LinkedOnlyWhenAnalysed ==
    \A m \in 1..Len(collection_sources) :
        AnalysisRows(collection_sources[m].source_id) # {}

\* The fetched members that have a Content Analysis row.
MembersWithAnalysis(members) ==
    { k \in 1..Len(members) : AnalysisRows(members[k]) # {} }

\* C24: analyzeCollection does not fail because a member has no Content
\* Analysis row: the step that collects the analyses always goes on to
\* synthesis, with exactly the members that have an analysis, and the row it
\* inserts records their number as sources_analyzed.
C24_MissingAnalysisSkipped ==
    [][\A p \in Procs :
          /\ (inv[p].pc = "an_ensure" /\ inv'[p] # inv[p])
                 => /\ inv'[p].pc = "an_synthesize"
                    /\ { inv'[p].analyses[k].sourceId : k \in 1..Len(inv'[p].analyses) }
                           = { inv[p].members[k] : k \in MembersWithAnalysis(inv[p].members) }
                    /\ Len(inv'[p].analyses) = Cardinality(MembersWithAnalysis(inv[p].members))
          /\ (inv[p].pc = "an_insert" /\ inv'[p].pc = "an_ready")
                 => collection_analyses'[Len(collection_analyses')].sources_analyzed
                        = Cardinality(MembersWithAnalysis(inv[p].members))]_vars

\* C24 witness: an analyze invocation has returned for a Collection of two
\* members of which one has no Content Analysis row; its analysis records 1.
C24_Witness ==
    \E p \in Procs :
        /\ inv[p].op = "analyze" /\ inv[p].pc = "returned"
        /\ inv[p].analysis \in 1..Len(collection_analyses)
        /\ collection_analyses[inv[p].analysis].sources_analyzed = 1
        /\ Len(collection_sources) = 2
        /\ \E m \in 1..2 : AnalysisRows(collection_sources[m].source_id) = {}

\* The most recent Content Analysis row of a Source (rows are appended, so
\* the last one in the table), or NoRow.
RECURSIVE LatestRow(_, _)
LatestRow(sourceId, n) ==
    IF n = 0 THEN NoRow
    ELSE IF source_analyses[n].source_id = sourceId THEN n
    ELSE LatestRow(sourceId, n - 1)

C26_AnalysisPairedWithItsSource ==
    \A p \in Procs :
        inv[p].pc = "an_synthesize"
            => \A k \in 1..Len(inv[p].analyses) :
                   SynthesisInput(inv[p].members, inv[p].analyses)[k].source
                       = SynthesisInput(inv[p].members, inv[p].analyses)[k].analysis.sourceId

\* The order index of a member Source.
OrderIndexOf(sourceId) ==
    collection_sources[CHOOSE m \in 1..Len(collection_sources) :
                           collection_sources[m].source_id = sourceId].order_index

\* C27: analyzeCollection passes the members to synthesis in ascending order
\* of their order index, whatever order the store returned them in.
C27_MembersInOrderIndexOrder ==
    \A p \in Procs :
        inv[p].pc = "an_synthesize"
            => \A a, b \in 1..Len(inv[p].members) :
                   a < b => OrderIndexOf(inv[p].members[a]) < OrderIndexOf(inv[p].members[b])

\* C28: the Synthesis Adapter is never invoked for a Collection with fewer
\* than two members, through the analyze route or through generation.
C28_SynthesisNeedsTwoMembers ==
    \A p \in Procs :
        inv[p].pc = "an_synthesize" => Len(collection_sources) >= 2

\* C29: an addSourceToCollection call that returns an error has not changed
\* the Collection: none of its steps wrote the Collection's status or its
\* membership, no Collection Source row names its Source, and a call that
\* has linked its Source no longer fails.
C29_FailedAddLeavesCollection ==
    [][\A p \in Procs :
        (inv'[p].op = "add" /\ inv'[p] # inv[p])
            => /\ inv'[p].pc \notin {"as_completed", "as_building", "returned"}
                   => UNCHANGED <<collection, collection_sources>>
               /\ inv'[p].pc = "thrown"
                   => /\ inv[p].pc \notin {"as_completed", "as_building"}
                      /\ \A m \in 1..Len(collection_sources') :
                             collection_sources'[m].source_id # inv'[p].source]_vars

\* C29 witness: an add to a 'ready' Collection has failed at the link insert
\* and the Collection is still 'ready' with its two earlier members.
C29_Witness ==
    \E p \in Procs :
        /\ inv[p].op = "add" /\ inv[p].pc = "thrown" /\ inv[p].error = "link"
        /\ collection.status = "ready"
        /\ Len(collection_sources) = 2

\* C30: every addSourceToCollection invocation eventually returns (with the
\* Source id or an error), also for a document whose remote file keeps
\* reporting the processing state.
C30_AddEventuallyReturns ==
    \A p \in {1} : (inv[p].op = "add" /\ ~Finished(p)) ~> Finished(p)

=============================================================================
